---- MODULE Spec2Model ----
(***************************************************************************)
(* A model of ircstates.Server (src/ircstates/server.py): the session      *)
(* state of an IRC client as it handles the lines a server sends.          *)
(*                                                                         *)
(* A Python str is a sequence of one-character strings, so that            *)
(* partition("="), startswith("-") and key[1:] are computed.  A Python     *)
(* dict is a sequence of [k, v] entries in insertion order.  An Optional   *)
(* is a record [isNone, x].                                                *)
(*                                                                         *)
(* The lines are those a server sends on one connection: one 001; a NICK   *)
(* never gives a user the nickname of another; the casemapping stays the   *)
(* default one; a name of a 353 carries sigils of the PREFIX in force.     *)
(* Anything else may arrive in any order, before 001 too, where most       *)
(* handlers raise AttributeError since nickname_lower is not assigned yet. *)
(* A handler that raises leaves what it had written so far.                *)
(***************************************************************************)
EXTENDS Integers, Sequences, FiniteSets, TLC

VARIABLES
    temp_caps,      \* Server._temp_caps
    caps,           \* Server.caps
    agreed_caps,    \* Server.agreed_caps
    lsAccum,        \* history: the raw words of the LS lines of the LS in progress
    expect,         \* history: what the statements below expect of the last CAP line
    nickname,       \* Server.nickname
    nickname_lower, \* Server.nickname_lower (Unset until 001 assigns the attribute)
    modes,          \* Server.modes
    users,          \* Server.users: folded nickname -> User
    channels,       \* Server.channels: folded name -> Channel
    user_channels,  \* Server.user_channels: User -> set of Channel
    channel_users,  \* Server.channel_users: Channel -> (User -> ChannelUser.modes)
    User_nickname,  \* User.nickname of every User object in use
    Channel_modes,  \* Channel.modes of every Channel object in use
    Channel_topic,  \* Channel.topic, topic_setter and topic_time of the same
    isupport,       \* Server.isupport: [prefix |-> [modes, prefixes]]
    raised,         \* history: the exception the last line raised, "" if none
    motd,           \* Server.motd
    motdSince,      \* history: [seen375, text375, texts372] since the most recent 375
    last,           \* history: the line handled last
    pending,        \* input: the CAP words or the MODE line to handle, drawn at the start
    twin            \* a second Server given the same lines, as a Session record

capVars    == <<temp_caps, caps, agreed_caps>>
memberVars == <<nickname, nickname_lower, modes, users, channels, user_channels,
                channel_users, User_nickname, Channel_modes, Channel_topic,
                isupport>>
vars == <<temp_caps, caps, agreed_caps, lsAccum, expect, memberVars, raised,
          motd, motdSince, last, pending, twin>>

(***************************************************************************)
(* Bounds.                                                                 *)
(***************************************************************************)
MaxTokens == 2      \* words in one CAP LS, NEW or DEL line
MaxAckTokens == 3   \* words in one CAP ACK line
MaxAccum  == 3      \* raw tokens remembered over one multi-line LS
MaxMotd   == 4      \* lines kept in motd
MaxUsers  == 3      \* User objects in use at once
MaxChannels == 2    \* Channel objects in use at once
MaxTokenWords == 3  \* words in the one CAP LS line whose tokens are read

(***************************************************************************)
(* Optional values.                                                        *)
(***************************************************************************)
None    == [isNone |-> TRUE,  x |-> <<>>]
Some(x) == [isNone |-> FALSE, x |-> x]

(***************************************************************************)
(* dict: insertion-ordered sequence of entries [k, v].                     *)
(***************************************************************************)
DictKeys(d)   == {d[i].k : i \in DOMAIN d}
DictHas(d, k) == \E i \in DOMAIN d : d[i].k = k
DictGet(d, k) == d[CHOOSE i \in DOMAIN d : d[i].k = k].v
\* d[k] = v: an existing key keeps its position, a new key goes last
DictSet(d, k, v) ==
    IF DictHas(d, k)
    THEN [i \in DOMAIN d |-> IF d[i].k = k THEN [k |-> k, v |-> v] ELSE d[i]]
    ELSE Append(d, [k |-> k, v |-> v])
\* del d[k]
DictDel(d, k) == SelectSeq(d, LAMBDA e : e.k # k)
\* d.update(e)
RECURSIVE DictUpdate(_, _)
DictUpdate(d, e) ==
    IF e = <<>> THEN d
    ELSE DictUpdate(DictSet(d, Head(e).k, Head(e).v), Tail(e))

\* list.remove(x): the first occurrence goes
ListRemove(l, x) ==
    LET i == CHOOSE j \in DOMAIN l : l[j] = x /\ \A h \in 1..(j - 1) : l[h] # x
    IN  SubSeq(l, 1, i - 1) \o SubSeq(l, i + 1, Len(l))
InList(l, x) == \E i \in DOMAIN l : l[i] = x

\* the numbers of a set in increasing order
RECURSIVE SortedSeq(_)
SortedSeq(S) ==
    IF S = {} THEN <<>>
    ELSE LET m == CHOOSE x \in S : \A y \in S : x <= y
         IN  <<m>> \o SortedSeq(S \ {m})

(***************************************************************************)
(* CAP tokens.                                                             *)
(***************************************************************************)
\* the words a CAP line's last parameter holds between its spaces: capability
\* names with and without a value in LS, NEW and DEL, names and "-" names in ACK
LsWords  == { <<"a">>, <<"a", "=", "1">>, <<"b">> }
AckWords == { <<"a">>, <<"b">>, <<"-", "a">> }
\* caps.split(" ") of the last parameter
WordLists(W, max) == UNION {[1..n -> W] : n \in 0..max}
CapSubcommands == {"LS", "NEW", "DEL", "ACK", "NAK"}
LsWordLists  == WordLists(LsWords, MaxTokens)
AckWordLists == WordLists(AckWords, MaxAckTokens)
CapWordsOf(sub) ==
    CASE sub = "ACK" -> AckWordLists
      [] sub = "NAK" -> {<< <<"a">> >>}
      [] OTHER       -> LsWordLists

\* cap.partition("="): (key, value), split at the first "="
Partition(cap) ==
    IF \E i \in DOMAIN cap : cap[i] = "="
    THEN LET i == CHOOSE j \in DOMAIN cap :
                      cap[j] = "=" /\ \A h \in 1..(j - 1) : cap[h] # "="
         IN  [key |-> SubSeq(cap, 1, i - 1), value |-> SubSeq(cap, i + 1, Len(cap))]
    ELSE [key |-> cap, value |-> <<>>]

\* tokens[key] = value, without the "or None"
RECURSIVE CapTokens_KeepsEmpty(_)
CapTokens_KeepsEmpty(words) ==
    IF words = <<>> THEN <<>>
    ELSE LET w    == words[Len(words)]
             rest == CapTokens_KeepsEmpty(SubSeq(words, 1, Len(words) - 1))
             p    == Partition(w)
         IN  IF w = <<>> THEN rest
             ELSE DictSet(rest, p.key, Some(p.value))

\* tokens[key] = value or None, for cap in filter(bool, caps.split(" "))
RECURSIVE CapTokens(_)
CapTokens(words) ==
    IF words = <<>> THEN <<>>
    ELSE LET w    == words[Len(words)]
             rest == CapTokens(SubSeq(words, 1, Len(words) - 1))
             p    == Partition(w)
         IN  IF w = <<>> THEN rest
             ELSE DictSet(rest, p.key, IF p.value = <<>> THEN None ELSE Some(p.value))

\* the words whose tokens are read one line at a time: bare names, names with
\* an empty and a non-empty value, a value that is "=", and the empty word two
\* spaces in a row leave
TokenWords ==
    { <<>>, <<"a">>, <<"a", "=">>, <<"a", "=", "1">>, <<"b", "=">>,
      <<"c", "=", "1">>, <<"a", "=", "=">> }
TokenWordLists == WordLists(TokenWords, MaxTokenWords)

\* the tokens of every word list, computed once
TokensOf ==
    [words \in LsWordLists \cup AckWordLists \cup TokenWordLists |-> CapTokens(words)]

(***************************************************************************)
(* CAP                                                                     *)
(***************************************************************************)
DictKeySeq(d) == [i \in DOMAIN d |-> d[i].k]
NonEmptyWords(words) == SelectSeq(words, LAMBDA w : w # <<>>)

\* the three capability fields of the session
CapState == [temp |-> temp_caps, caps |-> caps, agreed |-> agreed_caps]

\* CapLS without self._temp_caps.clear()
CapLS_NoClear(st, tokens, multiline) ==
    LET merged == DictUpdate(st.temp, tokens)
    IN  IF multiline
        THEN [st EXCEPT !.temp = merged]
        ELSE [st EXCEPT !.caps = Some(merged)]

\* LS: self._temp_caps.update(tokens); on the terminal line
\*     self.caps = self._temp_caps.copy(); self._temp_caps.clear()
CapLS(st, tokens, multiline) ==
    LET merged == DictUpdate(st.temp, tokens)
    IN  IF multiline
        THEN [st EXCEPT !.temp = merged]
        ELSE [st EXCEPT !.caps = Some(merged), !.temp = <<>>]

\* CapNEW without the None test: NEW creates caps
CapNEW_Creates(st, tokens) ==
    [st EXCEPT !.caps = Some(DictUpdate(st.caps.x, tokens))]

\* NEW: if not self.caps is None: self.caps.update(tokens)
CapNEW(st, tokens) ==
    IF st.caps.isNone THEN st
    ELSE [st EXCEPT !.caps = Some(DictUpdate(st.caps.x, tokens))]

\* DEL, one key: if key in self.caps.keys(): del self.caps[key];
\*                   if key in self.agreed_caps: self.agreed_caps.remove(key)
CapDELKey(st, key) ==
    IF DictHas(st.caps.x, key)
    THEN [st EXCEPT !.caps   = Some(DictDel(st.caps.x, key)),
                    !.agreed = IF InList(st.agreed, key)
                               THEN ListRemove(st.agreed, key)
                               ELSE st.agreed]
    ELSE st

\* DEL: if not self.caps is None: for key in tokens.keys(): ...
RECURSIVE CapDEL(_, _)
CapDEL(st, keys) ==
    IF st.caps.isNone \/ keys = <<>> THEN st
    ELSE CapDEL(CapDELKey(st, Head(keys)), Tail(keys))

\* CapACKKey without the test that the key is in self.caps
CapACKKey_Unlisted(st, key) ==
    IF key # <<>> /\ Head(key) = "-"
    THEN LET k == Tail(key)
         IN  IF InList(st.agreed, k)
             THEN [st EXCEPT !.agreed = ListRemove(st.agreed, k)]
             ELSE st
    ELSE IF ~InList(st.agreed, key)
         THEN [st EXCEPT !.agreed = Append(st.agreed, key)]
         ELSE st

\* ACK, one key
CapACKKey(st, key) ==
    IF key # <<>> /\ Head(key) = "-"
    THEN LET k == Tail(key)
         IN  IF InList(st.agreed, k)
             THEN [st EXCEPT !.agreed = ListRemove(st.agreed, k)]
             ELSE st
    ELSE IF /\ ~InList(st.agreed, key)
            /\ ~st.caps.isNone /\ st.caps.x # <<>>   \* "self.caps and": None and {} are falsy
            /\ DictHas(st.caps.x, key)
         THEN [st EXCEPT !.agreed = Append(st.agreed, key)]
         ELSE st

\* ACK: for key in tokens.keys(): ...
RECURSIVE CapACK(_, _)
CapACK(st, keys) ==
    IF keys = <<>> THEN st
    ELSE CapACK(CapACKKey(st, Head(keys)), Tail(keys))

handle_CAP(sub, multiline, words) ==
    LET tokens == TokensOf[words]
        st == CASE sub = "LS"  -> CapLS(CapState, tokens, multiline)
                [] sub = "NEW" -> CapNEW(CapState, tokens)
                [] sub = "DEL" -> CapDEL(CapState, DictKeySeq(tokens))
                [] sub = "ACK" -> CapACK(CapState, DictKeySeq(tokens))
                [] OTHER       -> CapState
    IN  /\ temp_caps' = st.temp
        /\ caps' = st.caps
        /\ agreed_caps' = st.agreed
        /\ UNCHANGED <<motd, memberVars>>

(***************************************************************************)
(* 375, 372: the message of the day                                        *)
(***************************************************************************)
MotdTexts == {"x", "y", "z"}

\* handle_375 without self.motd.clear()
handle_375_NoClear(m, params) == m

\* handle_375: self.motd.clear()
handle_375(m, params) == <<>>
\* handle_372: self.motd.append(line.params[1])
handle_372(m, params) == Append(m, params[2])

\* LINE_HANDLERS[command], in the order the decorators registered the callbacks:
\* handle_375 under "375"; handle_372 under "372" and then under "375"
LINE_HANDLERS(command) ==
    CASE command = "375" -> <<"handle_375", "handle_372">>
      [] command = "372" -> <<"handle_372">>
      [] OTHER -> <<>>

\* parse_tokens: for callback in LINE_HANDLERS[line.command]: callback(self, line)
RECURSIVE MotdCallbacks(_, _, _)
MotdCallbacks(m, callbacks, params) ==
    IF callbacks = <<>> THEN m
    ELSE LET after == IF Head(callbacks) = "handle_375"
                      THEN handle_375(m, params)
                      ELSE handle_372(m, params)
         IN  MotdCallbacks(after, Tail(callbacks), params)

parse_tokens_motd(command, params) ==
    /\ motd' = MotdCallbacks(motd, LINE_HANDLERS(command), params)
    /\ UNCHANGED <<capVars, memberVars>>

(***************************************************************************)
(* Users, channels and memberships.                                        *)
(*                                                                         *)
(* User and Channel objects are numbered; users and channels map folded    *)
(* names to them, and user_channels and channel_users are keyed by the     *)
(* objects themselves, as in Python.  An object no map refers to is        *)
(* forgotten.  The username, hostname, realname, account and away fields   *)
(* and Channel.name are written and never read by a handler: they are not  *)
(* kept.                                                                   *)
(***************************************************************************)
Unset == "<unset>"          \* the attribute nickname_lower before 001 assigns it

Nicks        == {"me", "bob", "Bob", "al"}
ChannelNames == {"#c", "#C", "#d"}

\* casefold(casemapping, s) under the default casemapping, on the names above
casefold(s) ==
    CASE s = "Bob" -> "bob"
      [] s = "#C"  -> "#c"
      [] OTHER     -> s
casefold_equals(s1, s2) == casefold(s1) = casefold(s2)

\* ISupport().prefix and the PREFIX= tokens a 005 may carry
DefaultPrefix  == [modes |-> <<"o", "v">>, prefixes |-> <<"@", "+">>]
PrefixTokens   == {DefaultPrefix, [modes |-> <<"o">>, prefixes |-> <<"@">>]}
\* ISupportPrefix.from_prefix: the mode of a sigil, "" when it is none
from_prefix(prefix, char) ==
    IF \E i \in DOMAIN prefix.prefixes : prefix.prefixes[i] = char
    THEN prefix.modes[CHOOSE i \in DOMAIN prefix.prefixes : prefix.prefixes[i] = char]
    ELSE ""
\* ISupport().chanmodes: CHANMODES=b,k,l,imnpst
chanmodes == [list_modes      |-> {"b"},
              setting_b_modes |-> {"k"},
              setting_c_modes |-> {"l"},
              setting_d_modes |-> {"i", "m", "n", "p", "s", "t"}]

\* dicts keyed by names or objects, where the order of the keys is not read
EmptyMap     == [x \in {} |-> 0]
Put(f, k, v) == [x \in DOMAIN f \cup {k} |-> IF x = k THEN v ELSE f[x]]
Drop(f, k)   == [x \in DOMAIN f \ {k} |-> f[x]]
Range(f)     == {f[x] : x \in DOMAIN f}

\* the session as one value; err is the exception raised so far in the line
Session ==
    [nickname       |-> nickname,
     nickname_lower |-> nickname_lower,
     modes          |-> modes,
     users          |-> users,
     channels       |-> channels,
     user_channels  |-> user_channels,
     channel_users  |-> channel_users,
     User_nickname  |-> User_nickname,
     Channel_modes  |-> Channel_modes,
     Channel_topic  |-> Channel_topic,
     isupport       |-> isupport,
     err            |-> ""]
Raise(S, e) == [S EXCEPT !.err = e]

\* the objects some map still refers to
UsersInUse(S) ==
    Range(S.users) \cup DOMAIN S.user_channels
        \cup UNION {DOMAIN S.channel_users[c] : c \in DOMAIN S.channel_users}
ChannelsInUse(S) ==
    Range(S.channels) \cup DOMAIN S.channel_users
        \cup UNION {S.user_channels[u] : u \in DOMAIN S.user_channels}
Collected(S) ==
    [S EXCEPT !.User_nickname = [u \in DOMAIN @ \cap UsersInUse(S) |-> @[u]],
              !.Channel_modes = [c \in DOMAIN @ \cap ChannelsInUse(S) |-> @[c]],
              !.Channel_topic = [c \in DOMAIN @ \cap ChannelsInUse(S) |-> @[c]]]

\* Channel(name): no topic yet
NoTopic == [topic |-> None, topic_setter |-> None, topic_time |-> None]

\* User(...) and Channel(...): the next object
CanCreateUser(S)    == \E u \in 1..MaxUsers : u \notin DOMAIN S.User_nickname
CanCreateChannel(S) == \E c \in 1..MaxChannels : c \notin DOMAIN S.Channel_modes
NewUser(S) ==
    CHOOSE u \in 1..MaxUsers :
        u \notin DOMAIN S.User_nickname
        /\ \A v \in 1..(u - 1) : v \in DOMAIN S.User_nickname
NewChannel(S) ==
    CHOOSE c \in 1..MaxChannels :
        c \notin DOMAIN S.Channel_modes
        /\ \A d \in 1..(c - 1) : d \in DOMAIN S.Channel_modes

\* add_user: self.users[nickname_lower] = User(nickname, nickname_lower)
add_user(S, nick, nick_lower) ==
    LET user == NewUser(S)
    IN  [S EXCEPT !.users = Put(@, nick_lower, user),
                  !.User_nickname = Put(@, user, nick)]

\* user_join without the ChannelUser
user_join_NoChannelUser(S, channel, user) ==
    [S EXCEPT !.user_channels =
         Put(@, user, (IF user \in DOMAIN @ THEN @[user] ELSE {}) \cup {channel})]
\* user_join: a new ChannelUser (no modes) under channel_users[channel][user]
user_join(S, channel, user) ==
    LET S1 == [S EXCEPT !.user_channels =
                   Put(@, user, (IF user \in DOMAIN @ THEN @[user] ELSE {}) \cup {channel})]
    IN  IF channel \notin DOMAIN S1.channel_users THEN Raise(S1, "KeyError")
        ELSE [S1 EXCEPT !.channel_users[channel] = Put(@, user, <<>>)]

\* handle_001
handle_001(S, nick) ==
    [S EXCEPT !.nickname = nick, !.nickname_lower = casefold(nick)]

\* handle_ISUPPORT: self.isupport.tokens(...) with a PREFIX= token
handle_ISUPPORT(S, prefix) ==
    [S EXCEPT !.isupport.prefix = prefix]

\* handle_NICK, were the old key left in users
handle_NICK_KeepsOldKey(S, src, new_nickname) ==
    LET nick_lower == casefold(src)
        S1 == IF nick_lower \in DOMAIN S.users
              THEN LET user == S.users[nick_lower]
                   IN  [S EXCEPT !.users = Put(@, casefold(new_nickname), user),
                                 !.User_nickname[user] = new_nickname]
              ELSE S
    IN  IF S1.nickname_lower = Unset THEN Raise(S1, "AttributeError")
        ELSE IF nick_lower = S1.nickname_lower
        THEN [S1 EXCEPT !.nickname = new_nickname,
                        !.nickname_lower = casefold(new_nickname)]
        ELSE S1

\* handle_NICK: source nickname src, params[0] = new_nickname
handle_NICK(S, src, new_nickname) ==
    LET nick_lower == casefold(src)
        S1 == IF nick_lower \in DOMAIN S.users
              THEN LET user == S.users[nick_lower]
                   IN  [S EXCEPT !.users = Put(Drop(@, nick_lower),
                                               casefold(new_nickname), user),
                                 !.User_nickname[user] = new_nickname]
              ELSE S
    IN  IF S1.nickname_lower = Unset THEN Raise(S1, "AttributeError")
        ELSE IF nick_lower = S1.nickname_lower
        THEN [S1 EXCEPT !.nickname = new_nickname,
                        !.nickname_lower = casefold(new_nickname)]
        ELSE S1

\* handle_JOIN, were the channel made for any source
handle_JOIN_AnySource(S, src, name) ==
    LET channel_lower == casefold(name)
        nick_lower    == casefold(src)
    IN  IF S.nickname_lower = Unset THEN Raise(S, "AttributeError")
        ELSE
        LET S1 == IF channel_lower \notin DOMAIN S.channels
                  THEN LET channel == NewChannel(S)
                       IN  [S EXCEPT !.channels = Put(@, channel_lower, channel),
                                     !.channel_users = Put(@, channel, EmptyMap),
                                     !.Channel_modes = Put(@, channel, EmptyMap),
                                     !.Channel_topic = Put(@, channel, NoTopic)]
                  ELSE S
            channel == S1.channels[channel_lower]
            S2 == IF nick_lower \notin DOMAIN S1.users
                  THEN add_user(S1, src, nick_lower)
                  ELSE S1
        IN  user_join(S2, channel, S2.users[nick_lower])

\* handle_JOIN: source nickname src, params[0] = name
handle_JOIN(S, src, name) ==
    LET channel_lower == casefold(name)
        nick_lower    == casefold(src)
    IN  IF S.nickname_lower = Unset THEN Raise(S, "AttributeError")
        ELSE
        LET S1 == IF nick_lower = S.nickname_lower /\ channel_lower \notin DOMAIN S.channels
                  THEN LET channel == NewChannel(S)
                       IN  [S EXCEPT !.channels = Put(@, channel_lower, channel),
                                     !.channel_users = Put(@, channel, EmptyMap),
                                     !.Channel_modes = Put(@, channel, EmptyMap),
                                     !.Channel_topic = Put(@, channel, NoTopic)]
                  ELSE S
        IN  IF channel_lower \in DOMAIN S1.channels
            THEN LET channel == S1.channels[channel_lower]
                     S2 == IF nick_lower \notin DOMAIN S1.users
                           THEN add_user(S1, src, nick_lower)
                           ELSE S1
                 IN  user_join(S2, channel, S2.users[nick_lower])
            ELSE S1

\* _handle_part, self leaving, were the members kept in users
RECURSIVE PartMembers_KeepsUsers(_, _, _)
PartMembers_KeepsUsers(S, channel, members) ==
    IF members = <<>> THEN S
    ELSE LET user == Head(members)
             left == S.user_channels[user] \ {channel}
         IN  PartMembers_KeepsUsers(
                 [S EXCEPT !.user_channels = IF left = {} THEN Drop(@, user)
                                             ELSE Put(@, user, left)],
                 channel, Tail(members))
\* _handle_part, self leaving: for user, cuser in channel_users.items()
\* (taken here in the order of the object numbers)
RECURSIVE PartMembers(_, _, _)
PartMembers(S, channel, members) ==
    IF members = <<>> \/ S.err # "" THEN S
    ELSE LET user == Head(members)
         IN  IF user \notin DOMAIN S.user_channels \/ channel \notin S.user_channels[user]
             THEN Raise(S, "KeyError")
             ELSE LET left == S.user_channels[user] \ {channel}
                      S1 == [S EXCEPT !.user_channels[user] = left]
                      key == casefold(S.User_nickname[user])
                  IN  IF left # {} THEN PartMembers(S1, channel, Tail(members))
                      ELSE LET S2 == [S1 EXCEPT !.user_channels = Drop(@, user)]
                           IN  IF key \notin DOMAIN S2.users THEN Raise(S2, "KeyError")
                               ELSE PartMembers([S2 EXCEPT !.users = Drop(@, key)],
                                                channel, Tail(members))

\* _handle_part, another user leaving, were the user kept in users
PartOther_KeepsUser(S, channel, nick_lower) ==
    IF nick_lower \notin DOMAIN S.users THEN S
    ELSE LET user == S.users[nick_lower]
             left == S.user_channels[user] \ {channel}
         IN  [S EXCEPT !.user_channels = IF left = {} THEN Drop(@, user)
                                         ELSE Put(@, user, left),
                       !.channel_users[channel] = Drop(@, user)]
\* _handle_part, another user leaving, were the roster of the channel kept
PartOther_KeepsRoster(S, channel, nick_lower) ==
    IF nick_lower \notin DOMAIN S.users THEN S
    ELSE LET user == S.users[nick_lower]
             left == S.user_channels[user] \ {channel}
         IN  IF left = {}
             THEN [S EXCEPT !.users = Drop(@, nick_lower),
                            !.user_channels = Drop(@, user)]
             ELSE [S EXCEPT !.user_channels[user] = left]
\* _handle_part, another user leaving
PartOther(S, channel, nick_lower) ==
    IF nick_lower \notin DOMAIN S.users THEN S
    ELSE LET user == S.users[nick_lower]
         IN  IF user \notin DOMAIN S.user_channels \/ channel \notin S.user_channels[user]
             THEN Raise(S, "KeyError")
             ELSE LET left == S.user_channels[user] \ {channel}
                      S1 == IF left = {}
                            THEN [S EXCEPT !.users = Drop(@, nick_lower),
                                           !.user_channels = Drop(@, user)]
                            ELSE [S EXCEPT !.user_channels[user] = left]
                  IN  IF \/ channel \notin DOMAIN S1.channel_users
                         \/ user \notin DOMAIN S1.channel_users[channel]
                      THEN Raise(S1, "KeyError")
                      ELSE [S1 EXCEPT !.channel_users[channel] = Drop(@, user)]

\* _handle_part, were the roster of the channel the local user leaves kept
_handle_part_KeepsRoster(S, nick, channel_name) ==
    LET channel_lower == casefold(channel_name)
    IN  IF channel_lower \notin DOMAIN S.channels THEN S
        ELSE LET channel == S.channels[channel_lower]
             IN  IF casefold_equals(nick, S.nickname)
                 THEN LET S1 == [S EXCEPT !.channels = Drop(@, channel_lower)]
                      IN  IF channel \notin DOMAIN S1.channel_users
                          THEN Raise(S1, "KeyError")
                          ELSE PartMembers(S1, channel,
                                           SortedSeq(DOMAIN S1.channel_users[channel]))
                 ELSE PartOther(S, channel, casefold(nick))

\* _handle_part(line, nickname, channel_name, reason_i)
_handle_part(S, nick, channel_name) ==
    LET channel_lower == casefold(channel_name)
    IN  IF channel_lower \notin DOMAIN S.channels THEN S
        ELSE LET channel == S.channels[channel_lower]
             IN  IF casefold_equals(nick, S.nickname)
                 THEN LET S1 == [S EXCEPT !.channels = Drop(@, channel_lower)]
                      IN  IF channel \notin DOMAIN S1.channel_users
                          THEN Raise(S1, "KeyError")
                          ELSE PartMembers(
                                   [S1 EXCEPT !.channel_users = Drop(@, channel)],
                                   channel,
                                   SortedSeq(DOMAIN S1.channel_users[channel]))
                 ELSE PartOther(S, channel, casefold(nick))

\* handle_PART: the source leaves params[0]
handle_PART(S, src, name) == _handle_part(S, src, name)
\* handle_KICK: params[1] leaves params[0]
handle_KICK(S, name, kicked) == _handle_part(S, kicked, name)

\* _self_quit, were the channels kept
_self_quit_KeepsChannels(S) ==
    [S EXCEPT !.users = EmptyMap, !.user_channels = EmptyMap]
\* _self_quit
_self_quit(S) ==
    [S EXCEPT !.users = EmptyMap, !.channels = EmptyMap,
              !.user_channels = EmptyMap, !.channel_users = EmptyMap]

\* handle_quit, another user: for channel in self.user_channels[user]
\* (taken here in the order of the object numbers)
RECURSIVE QuitChannels(_, _, _)
QuitChannels(S, user, chans) ==
    IF chans = <<>> THEN [S EXCEPT !.user_channels = Drop(@, user)]
    ELSE LET channel == Head(chans)
         IN  IF \/ channel \notin DOMAIN S.channel_users
                \/ user \notin DOMAIN S.channel_users[channel]
             THEN Raise(S, "KeyError")
             ELSE QuitChannels([S EXCEPT !.channel_users[channel] = Drop(@, user)],
                               user, Tail(chans))

\* handle_quit, were the user kept in the rosters
handle_quit_KeepsRosters(S, src) ==
    LET nick_lower == casefold(src)
    IN  IF S.nickname_lower = Unset THEN Raise(S, "AttributeError")
        ELSE IF nick_lower = S.nickname_lower THEN _self_quit(S)
        ELSE IF nick_lower \notin DOMAIN S.users THEN S
        ELSE [S EXCEPT !.users = Drop(@, nick_lower),
                       !.user_channels = Drop(@, S.users[nick_lower])]
\* handle_quit
handle_quit(S, src) ==
    LET nick_lower == casefold(src)
    IN  IF S.nickname_lower = Unset THEN Raise(S, "AttributeError")
        ELSE IF nick_lower = S.nickname_lower THEN _self_quit(S)
        ELSE IF nick_lower \notin DOMAIN S.users THEN S
        ELSE LET user == S.users[nick_lower]
                 S1   == [S EXCEPT !.users = Drop(@, nick_lower)]
             IN  IF user \notin DOMAIN S1.user_channels THEN Raise(S1, "KeyError")
                 ELSE QuitChannels(S1, user, SortedSeq(S1.user_channels[user]))

\* handle_ERROR
handle_ERROR(S) == _self_quit(S)

\* handle_353, the sigils of one name: modes += mode until a char is no sigil
RECURSIVE SigilModes(_, _)
SigilModes(prefix, sigils) ==
    IF sigils = <<>> \/ from_prefix(prefix, Head(sigils)) = "" THEN <<>>
    ELSE <<from_prefix(prefix, Head(sigils))>> \o SigilModes(prefix, Tail(sigils))

\* for mode in modes: if not mode in channel_user.modes: channel_user.modes.append(mode)
RECURSIVE AppendNew(_, _)
AppendNew(l, ms) ==
    IF ms = <<>> THEN l
    ELSE AppendNew(IF InList(l, Head(ms)) THEN l ELSE Append(l, Head(ms)), Tail(ms))

\* handle_353, one name of params[3]; a name is [sigils, nick]
NamesEntry(S, channel, entry) ==
    LET found      == SigilModes(S.isupport.prefix, entry.sigils)
        nick_lower == casefold(entry.nick)
        S1 == IF nick_lower \notin DOMAIN S.users
              THEN add_user(S, entry.nick, nick_lower)
              ELSE S
        user == S1.users[nick_lower]
        S2 == user_join(S1, channel, user)
    IN  IF S2.err # "" THEN S2
        ELSE [S2 EXCEPT !.channel_users[channel][user] = AppendNew(@, found)]

RECURSIVE NamesEntries(_, _, _)
NamesEntries(S, channel, names) ==
    IF names = <<>> \/ S.err # "" THEN S
    ELSE NamesEntries(NamesEntry(S, channel, Head(names)), channel, Tail(names))

\* handle_353: params[2] = name, params[3] = names
handle_353(S, name, names) ==
    LET channel_lower == casefold(name)
    IN  IF channel_lower \notin DOMAIN S.channels THEN S
        ELSE NamesEntries(S, S.channels[channel_lower], names)

\* Channel.add_mode(char, param, list_mode); Channel.modes maps a char to its
\* parameter (None for a flag) or, for a list mode, to its list of parameters
add_mode(cmodes, char, param, list_mode) ==
    IF list_mode
    THEN Put(cmodes, char,
             Append(IF char \in DOMAIN cmodes THEN cmodes[char] ELSE <<>>, param.x))
    ELSE Put(cmodes, char, param)
\* Channel.remove_mode(char, param)
remove_mode(cmodes, char, param) ==
    IF char \notin DOMAIN cmodes THEN cmodes
    ELSE IF char \in chanmodes.list_modes /\ ~param.isNone
    THEN LET left == IF InList(cmodes[char], param.x)
                     THEN ListRemove(cmodes[char], param.x)
                     ELSE cmodes[char]
         IN  IF left = <<>> THEN Drop(cmodes, char) ELSE Put(cmodes, char, left)
    ELSE Drop(cmodes, char)

\* the prefix-mode branch without the test "not char in channel_user.modes"
PrefixMode_AppendAlways(S, channel, add, char, user) ==
    IF add
    THEN [S EXCEPT !.channel_users[channel][user] = Append(@, char)]
    ELSE IF InList(S.channel_users[channel][user], char)
    THEN [S EXCEPT !.channel_users[channel][user] = ListRemove(@, char)]
    ELSE S
\* _channel_modes, the prefix-mode branch of one (add, char)
PrefixMode(S, channel, add, char, user) ==
    LET cumodes == S.channel_users[channel][user]
    IN  IF add
        THEN IF ~InList(cumodes, char)
             THEN [S EXCEPT !.channel_users[channel][user] = Append(@, char)]
             ELSE S
        ELSE IF InList(cumodes, char)
             THEN [S EXCEPT !.channel_users[channel][user] = ListRemove(@, char)]
             ELSE S

\* _channel_modes, were a parameter taken on the removal of a class C mode too
RECURSIVE _channel_modes_MinusCTakes(_, _, _, _)
_channel_modes_MinusCTakes(S, channel, cmodes, params) ==
    IF cmodes = <<>> \/ S.err # "" THEN S
    ELSE
    LET add  == Head(cmodes).add
        char == Head(cmodes).char
        rest == Tail(cmodes)
        list_mode == char \in chanmodes.list_modes
    IN  IF InList(S.isupport.prefix.modes, char)
        THEN IF params = <<>> THEN Raise(S, "IndexError")
             ELSE LET nick_lower == casefold(Head(params))
                  IN  IF nick_lower \in DOMAIN S.users
                      THEN LET user == S.users[nick_lower]
                           IN  IF \/ channel \notin DOMAIN S.channel_users
                                  \/ user \notin DOMAIN S.channel_users[channel]
                               THEN Raise(S, "KeyError")
                               ELSE _channel_modes_MinusCTakes(PrefixMode(S, channel, add, char, user),
                                                   channel, rest, Tail(params))
                      ELSE _channel_modes_MinusCTakes(S, channel, rest, Tail(params))
        ELSE IF add /\ (list_mode \/ char \in chanmodes.setting_b_modes
                                  \/ char \in chanmodes.setting_c_modes)
        THEN IF params = <<>> THEN Raise(S, "IndexError")
             ELSE _channel_modes_MinusCTakes(
                      [S EXCEPT !.Channel_modes[channel] =
                                    add_mode(@, char, Some(Head(params)), list_mode)],
                      channel, rest, Tail(params))
        ELSE IF ~add /\ (list_mode \/ char \in chanmodes.setting_b_modes
                                   \/ char \in chanmodes.setting_c_modes)
        THEN IF params = <<>> THEN Raise(S, "IndexError")
             ELSE _channel_modes_MinusCTakes(
                      [S EXCEPT !.Channel_modes[channel] =
                                    remove_mode(@, char, Some(Head(params)))],
                      channel, rest, Tail(params))
        ELSE IF add
        THEN _channel_modes_MinusCTakes(
                 [S EXCEPT !.Channel_modes[channel] = add_mode(@, char, None, FALSE)],
                 channel, rest, params)
        ELSE _channel_modes_MinusCTakes(
                 [S EXCEPT !.Channel_modes[channel] = remove_mode(@, char, None)],
                 channel, rest, params)

\* _channel_modes, were the removal of a class C mode to call nothing
RECURSIVE _channel_modes_MinusCNoEffect(_, _, _, _)
_channel_modes_MinusCNoEffect(S, channel, cmodes, params) ==
    IF cmodes = <<>> \/ S.err # "" THEN S
    ELSE
    LET add  == Head(cmodes).add
        char == Head(cmodes).char
        rest == Tail(cmodes)
        list_mode == char \in chanmodes.list_modes
    IN  IF InList(S.isupport.prefix.modes, char)
        THEN IF params = <<>> THEN Raise(S, "IndexError")
             ELSE LET nick_lower == casefold(Head(params))
                  IN  IF nick_lower \in DOMAIN S.users
                      THEN LET user == S.users[nick_lower]
                           IN  IF \/ channel \notin DOMAIN S.channel_users
                                  \/ user \notin DOMAIN S.channel_users[channel]
                               THEN Raise(S, "KeyError")
                               ELSE _channel_modes_MinusCNoEffect(PrefixMode(S, channel, add, char, user),
                                                   channel, rest, Tail(params))
                      ELSE _channel_modes_MinusCNoEffect(S, channel, rest, Tail(params))
        ELSE IF add /\ (list_mode \/ char \in chanmodes.setting_b_modes
                                  \/ char \in chanmodes.setting_c_modes)
        THEN IF params = <<>> THEN Raise(S, "IndexError")
             ELSE _channel_modes_MinusCNoEffect(
                      [S EXCEPT !.Channel_modes[channel] =
                                    add_mode(@, char, Some(Head(params)), list_mode)],
                      channel, rest, Tail(params))
        ELSE IF ~add /\ (list_mode \/ char \in chanmodes.setting_b_modes)
        THEN IF params = <<>> THEN Raise(S, "IndexError")
             ELSE _channel_modes_MinusCNoEffect(
                      [S EXCEPT !.Channel_modes[channel] =
                                    remove_mode(@, char, Some(Head(params)))],
                      channel, rest, Tail(params))
        ELSE IF add
        THEN _channel_modes_MinusCNoEffect(
                 [S EXCEPT !.Channel_modes[channel] = add_mode(@, char, None, FALSE)],
                 channel, rest, params)
        ELSE IF char \in chanmodes.setting_c_modes
        THEN _channel_modes_MinusCNoEffect(S, channel, rest, params)
        ELSE _channel_modes_MinusCNoEffect(
                 [S EXCEPT !.Channel_modes[channel] = remove_mode(@, char, None)],
                 channel, rest, params)

\* _channel_modes(channel, modes, params); params.pop(0) takes the head of
\* the parameter queue and raises IndexError when it is empty
RECURSIVE _channel_modes(_, _, _, _)
_channel_modes(S, channel, cmodes, params) ==
    IF cmodes = <<>> \/ S.err # "" THEN S
    ELSE
    LET add  == Head(cmodes).add
        char == Head(cmodes).char
        rest == Tail(cmodes)
        list_mode == char \in chanmodes.list_modes
    IN  IF InList(S.isupport.prefix.modes, char)
        THEN IF params = <<>> THEN Raise(S, "IndexError")
             ELSE LET nick_lower == casefold(Head(params))
                  IN  IF nick_lower \in DOMAIN S.users
                      THEN LET user == S.users[nick_lower]
                           IN  IF \/ channel \notin DOMAIN S.channel_users
                                  \/ user \notin DOMAIN S.channel_users[channel]
                               THEN Raise(S, "KeyError")
                               ELSE _channel_modes(PrefixMode(S, channel, add, char, user),
                                                   channel, rest, Tail(params))
                      ELSE _channel_modes(S, channel, rest, Tail(params))
        ELSE IF add /\ (list_mode \/ char \in chanmodes.setting_b_modes
                                  \/ char \in chanmodes.setting_c_modes)
        THEN IF params = <<>> THEN Raise(S, "IndexError")
             ELSE _channel_modes(
                      [S EXCEPT !.Channel_modes[channel] =
                                    add_mode(@, char, Some(Head(params)), list_mode)],
                      channel, rest, Tail(params))
        ELSE IF ~add /\ (list_mode \/ char \in chanmodes.setting_b_modes)
        THEN IF params = <<>> THEN Raise(S, "IndexError")
             ELSE _channel_modes(
                      [S EXCEPT !.Channel_modes[channel] =
                                    remove_mode(@, char, Some(Head(params)))],
                      channel, rest, Tail(params))
        ELSE IF add
        THEN _channel_modes(
                 [S EXCEPT !.Channel_modes[channel] = add_mode(@, char, None, FALSE)],
                 channel, rest, params)
        ELSE _channel_modes(
                 [S EXCEPT !.Channel_modes[channel] = remove_mode(@, char, None)],
                 channel, rest, params)

\* handle_MODE: for c in list(modes_str), giving the (add, char) pairs
RECURSIVE ParseModes(_, _)
ParseModes(modes_str, modifier) ==
    IF modes_str = <<>> THEN <<>>
    ELSE LET c == Head(modes_str)
         IN  IF c = "+" THEN ParseModes(Tail(modes_str), TRUE)
             ELSE IF c = "-" THEN ParseModes(Tail(modes_str), FALSE)
             ELSE <<[add |-> modifier, char |-> c]>>
                      \o ParseModes(Tail(modes_str), modifier)

\* handle_MODE, the target is the local user: self.modes
RECURSIVE SelfModes(_, _)
SelfModes(umodes, cmodes) ==
    IF cmodes = <<>> THEN umodes
    ELSE LET add  == Head(cmodes).add
             char == Head(cmodes).char
         IN  SelfModes(IF add
                       THEN IF ~InList(umodes, char) THEN Append(umodes, char) ELSE umodes
                       ELSE IF InList(umodes, char) THEN ListRemove(umodes, char)
                       ELSE umodes,
                       Tail(cmodes))

\* handle_MODE: params[0] = target, params[1] = modes_str, params[2:] = params
handle_MODE(S, target, modes_str, params) ==
    LET cmodes       == ParseModes(modes_str, TRUE)
        target_lower == casefold(target)
    IN  IF S.nickname_lower = Unset THEN Raise(S, "AttributeError")
        ELSE IF target_lower = S.nickname_lower
        THEN [S EXCEPT !.modes = SelfModes(@, cmodes)]
        ELSE IF target_lower \in DOMAIN S.channels
        THEN _channel_modes(S, S.channels[target_lower], cmodes, params)
        ELSE S

\* handle_324: params[1] = name, params[2] = modes_str, params[3:] = params
RECURSIVE LStripPlus(_)
LStripPlus(modes_str) ==
    IF modes_str # <<>> /\ Head(modes_str) = "+" THEN LStripPlus(Tail(modes_str))
    ELSE modes_str
handle_324(S, name, modes_str, params) ==
    LET channel_lower == casefold(name)
        stripped      == LStripPlus(modes_str)
        cmodes        == [i \in DOMAIN stripped |-> [add |-> TRUE, char |-> stripped[i]]]
    IN  IF channel_lower \in DOMAIN S.channels
        THEN _channel_modes(S, S.channels[channel_lower], cmodes, params)
        ELSE S

\* handle_211, were every char appended
handle_211_AppendAlways(S, modes_str) ==
    [S EXCEPT !.modes = @ \o LStripPlus(modes_str)]
\* handle_211: params[1] = modes_str; every char after the leading "+" signs is
\* appended to self.modes unless it is there
handle_211(S, modes_str) ==
    [S EXCEPT !.modes = AppendNew(@, LStripPlus(modes_str))]

\* handle_TOPIC: source src, params[0] = name, params[1] = text; now is what
\* datetime.utcnow() returns
handle_TOPIC(S, src, name, text, now) ==
    LET channel_lower == casefold(name)
    IN  IF channel_lower \in DOMAIN S.channels
        THEN [S EXCEPT !.Channel_topic[S.channels[channel_lower]] =
                           [topic        |-> Some(text),
                            topic_setter |-> Some(src),
                            topic_time   |-> Some(now)]]
        ELSE S

\* create_user: a User that no map holds
create_user(S, nick, nick_lower) ==
    [S EXCEPT !.User_nickname = Put(@, NewUser(S), nick)]

\* handle_PRIVMSG (PRIVMSG, NOTICE and TAGMSG): source nickname src; the User of
\* an unknown source is made by create_user and no map is written
handle_PRIVMSG(S, src, target) ==
    LET nick_lower == casefold(src)
    IN  IF S.nickname_lower = Unset THEN Raise(S, "AttributeError")
        ELSE IF nick_lower \in DOMAIN S.users THEN S
        ELSE create_user(S, src, nick_lower)

\* handle_PRIVMSG, the user of its EmitSourceUser: the one users holds or the one
\* create_user made; nothing is emitted when the line raises before
PRIVMSG_SourceUser(S, src) ==
    LET nick_lower == casefold(src)
    IN  IF S.nickname_lower = Unset THEN None
        ELSE IF nick_lower \in DOMAIN S.users
        THEN Some([stored |-> TRUE, nickname |-> S.User_nickname[S.users[nick_lower]]])
        ELSE Some([stored |-> FALSE, nickname |-> src])

(***************************************************************************)
(* What the specification says of a CAP line, computed from the words of   *)
(* the line and not by the handler.                                        *)
(***************************************************************************)
\* the name of a word (what precedes its first "=") and its value (what follows)
WordKey(w) ==
    LET eqs == {i \in DOMAIN w : w[i] = "="}
    IN  IF eqs = {} THEN w
        ELSE SubSeq(w, 1, (CHOOSE i \in eqs : \A j \in eqs : i <= j) - 1)
WordValue(w) ==
    LET eqs == {i \in DOMAIN w : w[i] = "="}
        rhs == SubSeq(w, (CHOOSE i \in eqs : \A j \in eqs : i <= j) + 1, Len(w))
    IN  IF eqs = {} \/ rhs = <<>> THEN None ELSE Some(rhs)
WordEntries(ws) == [i \in DOMAIN ws |-> [k |-> WordKey(ws[i]), v |-> WordValue(ws[i])]]

\* entries merged: every key once, at the place of its first entry, with the value
\* of its last entry
MergedEntries(es) ==
    LET firsts == {i \in DOMAIN es : \A j \in 1..(i - 1) : es[j].k # es[i].k}
        order  == SortedSeq(firsts)
        lastOf(k) == CHOOSE i \in DOMAIN es :
                        es[i].k = k /\ \A j \in (i + 1)..Len(es) : es[j].k # k
    IN  [n \in DOMAIN order |-> [k |-> es[order[n]].k, v |-> es[lastOf(es[order[n]].k)].v]]

Without(l, ks) == SelectSeq(l, LAMBDA x : x \notin ks)
NoDuplicates(l) == \A i, j \in DOMAIN l : l[i] = l[j] => i = j

\* ACK, token by token
RECURSIVE AckEach(_, _, _)
AckEach(agreed, c, ws) ==
    IF ws = <<>> THEN agreed
    ELSE LET w == Head(ws)
             nxt == IF Head(w) = "-"
                    THEN Without(agreed, {Tail(w)})
                    ELSE IF /\ \A i \in DOMAIN agreed : agreed[i] # WordKey(w)
                            /\ ~c.isNone
                            /\ WordKey(w) \in DictKeys(c.x)
                         THEN agreed \o <<WordKey(w)>>
                         ELSE agreed
         IN  AckEach(nxt, c, Tail(ws))

\* the words of a line, each kept at its first occurrence only
FirstOccurrences(ws) ==
    LET firsts == {i \in DOMAIN ws : \A j \in 1..(i - 1) : WordKey(ws[j]) # WordKey(ws[i])}
        order  == SortedSeq(firsts)
    IN  [n \in DOMAIN order |-> ws[order[n]]]

NoExpect == [caps |-> None, agreed |-> <<>>, perToken |-> <<>>]
Expected(sub, words) ==
    LET ws   == NonEmptyWords(words)
        keys == {WordKey(w) : w \in {ws[i] : i \in DOMAIN ws}}
    IN  CASE sub = "ACK" ->
               [caps     |-> caps,
                agreed   |-> AckEach(agreed_caps, caps, FirstOccurrences(ws)),
                perToken |-> AckEach(agreed_caps, caps, ws)]
          [] sub = "DEL" ->
               [caps     |-> IF caps.isNone THEN None
                             ELSE Some(SelectSeq(caps.x, LAMBDA e : e.k \notin keys)),
                agreed   |-> IF caps.isNone THEN agreed_caps ELSE Without(agreed_caps, keys),
                perToken |-> <<>>]
          [] sub = "NEW" ->
               [caps     |-> IF caps.isNone THEN None
                             ELSE Some(MergedEntries(caps.x \o WordEntries(ws))),
                agreed   |-> agreed_caps,
                perToken |-> <<>>]
          [] OTHER -> NoExpect

(***************************************************************************)
(* The session, and the lines a server sends it.                           *)
(***************************************************************************)
\* history of the multi-line LS: the raw words of its lines so far, whether its
\* terminal line has been handled, whether any LS has ever completed, and whether
\* it had a continuation line
NoLS == [ws |-> <<>>, done |-> FALSE, ever |-> FALSE, multi |-> FALSE]
NoLine == [cmd |-> "none", sub |-> "", more |-> FALSE]
LineOf(cmd, sub, more) == [cmd |-> cmd, sub |-> sub, more |-> more]

InitSession ==
    /\ temp_caps = <<>>
    /\ caps = None
    /\ agreed_caps = <<>>
    /\ lsAccum = NoLS
    /\ expect = NoExpect
    /\ motd = <<>>
    /\ motdSince = [seen375 |-> FALSE, text375 |-> "", texts372 |-> <<>>]
    /\ nickname = ""
    /\ nickname_lower = Unset
    /\ modes = <<>>
    /\ users = EmptyMap
    /\ channels = EmptyMap
    /\ user_channels = EmptyMap
    /\ channel_users = EmptyMap
    /\ User_nickname = EmptyMap
    /\ Channel_modes = EmptyMap
    /\ Channel_topic = EmptyMap
    /\ isupport = [prefix |-> DefaultPrefix]
    /\ raised = ""
    /\ last = NoLine
    /\ twin = Session

Init == InitSession /\ pending = <<>>

\* the "*" before the words is tried where the tests have it, on LS and ACK
MultilineOf(sub) == IF sub \in {"LS", "ACK"} THEN BOOLEAN ELSE {FALSE}

\* CAP * <sub> [*] :<words>
Line_CAP ==
    \E sub \in CapSubcommands :
        \E multiline \in MultilineOf(sub), words \in CapWordsOf(sub) :
            /\ handle_CAP(sub, multiline, words)
            /\ last' = LineOf("CAP", sub, sub = "LS" /\ multiline)
            /\ expect' = Expected(sub, words)
            /\ raised' = ""
            /\ UNCHANGED <<lsAccum, motdSince, pending, twin>>

NextCap == Line_CAP
SpecCap == Init /\ [][NextCap]_vars

\* the CAP lines that write caps, with the raw words of the LS in progress remembered
Line_CAP_LS ==
    \E sub \in {"LS", "NEW", "DEL"} :
        \E multiline \in MultilineOf(sub), words \in LsWordLists :
            LET seen == (IF lsAccum.done THEN <<>> ELSE lsAccum.ws) \o NonEmptyWords(words)
            IN  /\ (sub = "LS" /\ multiline) => Len(seen) <= MaxAccum
                /\ handle_CAP(sub, multiline, words)
                /\ last' = LineOf("CAP", sub, sub = "LS" /\ multiline)
                /\ lsAccum' = IF sub # "LS"
                              THEN (IF lsAccum.done THEN [lsAccum EXCEPT !.ws = <<>>]
                                    ELSE lsAccum)
                              ELSE [ws    |-> seen,
                                    done  |-> ~multiline,
                                    ever  |-> lsAccum.ever \/ ~multiline,
                                    multi |-> multiline \/ (~lsAccum.done /\ lsAccum.multi)]
                /\ raised' = ""
                /\ UNCHANGED <<expect, motdSince, pending, twin>>

NextLS == Line_CAP_LS
SpecLS == Init /\ [][NextLS]_vars

\* :server 375 me :<text>
Line_375 ==
    \E text \in MotdTexts :
        /\ parse_tokens_motd("375", <<"me", text>>)
        /\ motdSince' = [seen375 |-> TRUE, text375 |-> text, texts372 |-> <<>>]
        /\ last' = LineOf("375", "", FALSE)
        /\ raised' = ""
        /\ UNCHANGED <<lsAccum, expect, pending, twin>>

\* :server 372 me :<text>
Line_372 ==
    \E text \in MotdTexts :
        /\ Len(motd) < MaxMotd
        /\ parse_tokens_motd("372", <<"me", text>>)
        /\ motdSince' = [motdSince EXCEPT !.texts372 = Append(@, text)]
        /\ last' = LineOf("372", "", FALSE)
        /\ raised' = ""
        /\ UNCHANGED <<lsAccum, expect, pending, twin>>

NextMotd == Line_375 \/ Line_372
SpecMotd == Init /\ [][NextMotd]_vars

\* CAP * LS :<pending>, one whole LS on a new session, for every word list
InitTokens == InitSession /\ pending \in TokenWordLists
Line_Tokens ==
    /\ handle_CAP("LS", FALSE, pending)
    /\ last' = LineOf("CAP", "LS", FALSE)
    /\ raised' = ""
    /\ UNCHANGED <<lsAccum, expect, motdSince, pending, twin>>

NextTokens == Line_Tokens
SpecTokens == InitTokens /\ [][NextTokens]_vars

\* the session after a membership line: what the handler left, an exception
\* included, with the objects no map refers to any more forgotten
Assigned(S, cmd, sub) ==
    LET C == Collected(S)
    IN  /\ nickname' = C.nickname
        /\ nickname_lower' = C.nickname_lower
        /\ modes' = C.modes
        /\ users' = C.users
        /\ channels' = C.channels
        /\ user_channels' = C.user_channels
        /\ channel_users' = C.channel_users
        /\ User_nickname' = C.User_nickname
        /\ Channel_modes' = C.Channel_modes
        /\ Channel_topic' = C.Channel_topic
        /\ isupport' = C.isupport
        /\ raised' = C.err
        /\ last' = LineOf(cmd, sub, FALSE)
        /\ UNCHANGED <<capVars, lsAccum, expect, motd, motdSince, pending>>
Handled(S, cmd, sub) == Assigned(S, cmd, sub) /\ twin' = twin
\* the same line handled by the second Server too
HandledTwice(S, T, cmd, sub) ==
    Assigned(S, cmd, sub) /\ twin' = [Collected(T) EXCEPT !.err = ""]

SelfOrOther(src) ==
    IF nickname_lower # Unset /\ casefold(src) = nickname_lower THEN "self" ELSE "other"

\* :server 001 <nick>, the one welcome of a connection
Welcome(nicks) ==
    \E nick \in nicks :
        /\ nickname_lower = Unset
        /\ Handled(handle_001(Session, nick), "001", "")

\* :server 005 <nick> PREFIX=... :are supported by this server
Supported ==
    \E prefix \in PrefixTokens :
        Handled(handle_ISUPPORT(Session, prefix), "005", "")

\* who a NICK is from: a user of users (the local user or another), the local
\* user while in no channel, or nobody known
Renamer(src) ==
    IF casefold(src) \in DOMAIN users THEN SelfOrOther(src)
    ELSE IF SelfOrOther(src) = "self" THEN "self alone"
    ELSE "unknown"

\* :<src> NICK <new>; the server keeps nicknames unique, so <new> is the name
\* of nobody else
Renamed(nicks) ==
    \E src \in nicks, new \in nicks :
        /\ \/ casefold(new) = casefold(src)
           \/ /\ casefold(new) \notin DOMAIN users
              /\ casefold(new) # nickname_lower
        /\ Handled(handle_NICK(Session, src, new), "NICK", Renamer(src))

\* :<src> JOIN <name>
Joined(nicks, names) ==
    \E src \in nicks, name \in names :
        /\ casefold(src) \notin DOMAIN users => CanCreateUser(Session)
        /\ casefold(name) \notin DOMAIN channels => CanCreateChannel(Session)
        /\ Handled(handle_JOIN(Session, src, name), "JOIN", SelfOrOther(src))

\* who leaves a channel: the local user or another, or nobody when the channel is
\* not known
Leaver(nick, name) ==
    IF casefold(name) \notin DOMAIN channels THEN "unknown" ELSE SelfOrOther(nick)

\* :<src> PART <name>
Parted(nicks, names) ==
    \E src \in nicks, name \in names :
        Handled(handle_PART(Session, src, name), "PART", Leaver(src, name))

\* :<src> KICK <name> <kicked>
Kicked(nicks, names) ==
    \E name \in names, kicked \in nicks :
        Handled(handle_KICK(Session, name, kicked), "KICK", Leaver(kicked, name))

\* :<src> QUIT
Quit(nicks) ==
    \E src \in nicks :
        Handled(handle_quit(Session, src), "QUIT", SelfOrOther(src))

\* the names a 353 may list: a nickname behind sigils of the PREFIX in force,
\* alone or after one of the first nickname
SigilsKnown(sigils) ==
    \A i \in DOMAIN sigils : from_prefix(isupport.prefix, sigils[i]) # ""
NameLists(nicks, sigils) ==
    LET one == {[sigils |-> g, nick |-> n] : g \in {g \in sigils : SigilsKnown(g)},
                                             n \in nicks}
    IN  {<<e>> : e \in one}
            \cup {<<e, f>> : e \in {x \in one : x.nick = "me"},
                             f \in {x \in one : x.nick = "bob"}}

\* :server 353 <nick> = <name> :<names>
Names(nicks, sigils, names) ==
    \E name \in names, listed \in NameLists(nicks, sigils) :
        /\ Cardinality({casefold(listed[i].nick) : i \in DOMAIN listed} \ DOMAIN users)
               <= Cardinality((1..MaxUsers) \ DOMAIN User_nickname)
        /\ Handled(handle_353(Session, name, listed), "353", "")

(***************************************************************************)
(* Who is where: the lines that make and end memberships, over three       *)
(* nicknames (one under two spellings) and two channels (one under two     *)
(* spellings).                                                             *)
(***************************************************************************)
Line_001   == Welcome(Nicks)
Line_NICK  == Renamed(Nicks)
Line_JOIN  == Joined(Nicks, ChannelNames)
Line_PART  == Parted(Nicks, ChannelNames)
Line_KICK  == Kicked(Nicks, ChannelNames)
Line_QUIT  == Quit(Nicks)
Line_ERROR == Handled(handle_ERROR(Session), "ERROR", "")
Line_353   == Names(Nicks, {<<>>}, ChannelNames)

Next ==
    \/ Line_001 \/ Line_NICK \/ Line_JOIN \/ Line_PART \/ Line_KICK
    \/ Line_QUIT \/ Line_ERROR \/ Line_353
Spec == Init /\ [][Next]_vars

(***************************************************************************)
(* Membership modes: every line above and the lines that write modes, in   *)
(* one channel with two users.                                             *)
(***************************************************************************)
ModeNicks    == {"me", "bob", "Bob"}
ModeChannels == {"#c", "#C"}
Sigils       == {<<>>, <<"@">>, <<"+">>, <<"@", "+">>}
\* the mode changes a MODE line may carry, and their parameters
ModeStrs   == {<<"+", "o">>, <<"-", "o">>, <<"+", "v">>, <<"-", "v">>, <<"+", "o", "v">>}
ModeParams == {<<>>, <<"me">>, <<"bob">>, <<"al">>, <<"bob", "me">>}

Modes_001  == Welcome({"me"})
Modes_005  == Supported
Modes_JOIN == Joined(ModeNicks, ModeChannels)
Modes_PART == Parted(ModeNicks, ModeChannels)
Modes_KICK == Kicked(ModeNicks, ModeChannels)
Modes_NICK == Renamed(ModeNicks)
Modes_QUIT == Quit(ModeNicks)
Modes_353  == Names(ModeNicks, Sigils, ModeChannels)
\* :<src> MODE <target> <modes_str> <params>
Line_MODE ==
    \E target \in ModeChannels, modes_str \in ModeStrs, params \in ModeParams :
        Handled(handle_MODE(Session, target, modes_str, params), "MODE", "")

NextModes ==
    \/ Modes_001 \/ Modes_005 \/ Modes_NICK \/ Modes_JOIN \/ Modes_PART
    \/ Modes_KICK \/ Modes_QUIT \/ Line_ERROR \/ Modes_353 \/ Line_MODE
SpecModes == Init /\ [][NextModes]_vars

\* :<src> TOPIC <name> :<text>, handled when the clock reads now
Topic(nicks, names, texts, times) ==
    \E src \in nicks, name \in names, text \in texts, now \in times :
        Handled(handle_TOPIC(Session, src, name, text, now), "TOPIC", SelfOrOther(src))

\* :<src> PRIVMSG <target> :<text>
Message(nicks, targets) ==
    \E src \in nicks, target \in targets :
        /\ casefold(src) \notin DOMAIN users => CanCreateUser(Session)
        /\ Handled(handle_PRIVMSG(Session, src, target), "PRIVMSG", SelfOrOther(src))

(***************************************************************************)
(* Where channels come from: the lines that name a channel, from the local *)
(* user and from another, for two channels.                                *)
(***************************************************************************)
ChanNicks == {"me", "bob"}
ChanNames == {"#c", "#d"}

Chan_001     == Welcome({"me"})
Chan_JOIN    == Joined(ChanNicks, ChanNames)
Chan_PART    == Parted(ChanNicks, ChanNames)
Chan_353     == Names(ChanNicks, {<<>>}, ChanNames)
Chan_MODE ==
    \E target \in ChanNames :
        Handled(handle_MODE(Session, target, <<"+", "o">>, <<"bob">>), "MODE", "")
Chan_TOPIC   == Topic({"bob"}, ChanNames, {"t"}, {1})
Chan_PRIVMSG == Message(ChanNicks, ChanNames \cup ChanNicks)

NextChannels ==
    \/ Chan_001 \/ Chan_JOIN \/ Chan_PART \/ Chan_353 \/ Chan_MODE
    \/ Chan_TOPIC \/ Chan_PRIVMSG
SpecChannels == Init /\ [][NextChannels]_vars

(***************************************************************************)
(* Two Servers given the same lines, each reading the clock for itself     *)
(* when it handles a TOPIC.                                                *)
(***************************************************************************)
Times == {1, 2}

Twin_001 ==
    /\ nickname_lower = Unset
    /\ HandledTwice(handle_001(Session, "me"), handle_001(twin, "me"), "001", "")
Twin_JOIN ==
    \E src \in ChanNicks, name \in ChanNames :
        /\ casefold(src) \notin DOMAIN users => CanCreateUser(Session)
        /\ casefold(name) \notin DOMAIN channels => CanCreateChannel(Session)
        /\ HandledTwice(handle_JOIN(Session, src, name), handle_JOIN(twin, src, name),
                        "JOIN", SelfOrOther(src))
Twin_PART ==
    \E src \in ChanNicks, name \in ChanNames :
        HandledTwice(handle_PART(Session, src, name), handle_PART(twin, src, name),
                     "PART", Leaver(src, name))
Twin_TOPIC ==
    \E src \in ChanNicks, name \in ChanNames, now \in Times, twin_now \in Times :
        HandledTwice(handle_TOPIC(Session, src, name, "t", now),
                     handle_TOPIC(twin, src, name, "t", twin_now),
                     "TOPIC", SelfOrOther(src))

NextTopic == Twin_001 \/ Twin_JOIN \/ Twin_PART \/ Twin_TOPIC
SpecTopic == Init /\ [][NextTopic]_vars

(***************************************************************************)
(* Channel modes and their parameters: one MODE line, drawn at the start,  *)
(* handled as MODE and as 324 in a channel the local user and bob are in,  *)
(* after at most one earlier MODE line that stored something.              *)
(***************************************************************************)
PairChars  == {"o", "b", "k", "l", "i"}
PairSigns  == {"+", "-"}
PairStrs   ==
    {<<g, c>> : g \in PairSigns, c \in PairChars}
        \cup {<<g, c, h, d>> : g \in PairSigns, c \in PairChars,
                               h \in PairSigns, d \in PairChars}
PairParams == UNION {[1..n -> {"bob", "5"}] : n \in 0..2}
PairLines  == [modes_str : PairStrs, params : PairParams]
SetupLines ==
    {[modes_str |-> <<"+", c>>, params |-> <<"5">>] : c \in {"b", "k", "l"}}
        \cup {[modes_str |-> <<"+", "o">>, params |-> <<"bob">>]}

InitPair == InitSession /\ pending \in PairLines
\* no list of the channel is full
\* the line drawn is the last line of the connection
NotYetDrawn == last.sub # "pending"
\* no MODE has yet told anything of a channel
NothingSet ==
    /\ \A c \in DOMAIN Channel_modes : Channel_modes[c] = EmptyMap
    /\ \A c \in DOMAIN channel_users : \A u \in DOMAIN channel_users[c] :
           channel_users[c][u] = <<>>

Pair_001   == NotYetDrawn /\ Welcome({"me"})
Pair_JOIN  == NotYetDrawn /\ Joined({"me", "bob"}, {"#c"})
Pair_Setup ==
    \E line \in SetupLines :
        /\ NotYetDrawn /\ NothingSet
        /\ Handled(handle_MODE(Session, "#c", line.modes_str, line.params), "MODE", "")
\* the line drawn; the second Server is not given it, and so keeps the state
\* the line was handled in
Pair_MODE  ==
    /\ NotYetDrawn
    /\ HandledTwice(handle_MODE(Session, "#c", pending.modes_str, pending.params),
                    Session, "MODE", "pending")
Pair_324   ==
    /\ NotYetDrawn
    /\ HandledTwice(handle_324(Session, "#c", pending.modes_str, pending.params),
                    Session, "324", "pending")

NextPair == Pair_001 \/ Pair_JOIN \/ Pair_Setup \/ Pair_MODE \/ Pair_324
SpecPair == InitPair /\ [][NextPair]_vars

(***************************************************************************)
(* One user leaving: a PART, a KICK or a QUIT drawn at the start and        *)
(* handled once, after the lines that bring three users into two channels. *)
(***************************************************************************)
LeaveNicks == {"me", "bob", "al"}
LeaveNames == {"#c", "#d"}
LeaveLines == [nick : LeaveNicks, name : LeaveNames]

InitLeave == InitSession /\ pending \in LeaveLines

Leave_001  == NotYetDrawn /\ Welcome({"me"})
Leave_JOIN == NotYetDrawn /\ Joined(LeaveNicks, LeaveNames)
Leave_MODE ==
    /\ NotYetDrawn /\ NothingSet
    /\ Handled(handle_MODE(Session, "#c", <<"+", "o">>, <<"al">>), "MODE", "")
\* the line drawn; the second Server is not given it
Leave_PART ==
    /\ NotYetDrawn
    /\ HandledTwice(handle_PART(Session, pending.nick, pending.name), Session,
                    "PART", "pending")
Leave_KICK ==
    /\ NotYetDrawn
    /\ HandledTwice(handle_KICK(Session, pending.name, pending.nick), Session,
                    "KICK", "pending")
Leave_QUIT ==
    /\ NotYetDrawn
    /\ HandledTwice(handle_quit(Session, pending.nick), Session, "QUIT", "pending")
\* the user of the line drawn speaks to its channel or to the local user
Leave_PRIVMSG ==
    /\ NotYetDrawn
    /\ casefold(pending.nick) \notin DOMAIN users => CanCreateUser(Session)
    /\ \E target \in {pending.name, "me"} :
           HandledTwice(handle_PRIVMSG(Session, pending.nick, target), Session,
                        "PRIVMSG", "pending")

NextLeave ==
    \/ Leave_001 \/ Leave_JOIN \/ Leave_MODE \/ Leave_PART \/ Leave_KICK \/ Leave_QUIT
    \/ Leave_PRIVMSG
SpecLeave == InitLeave /\ [][NextLeave]_vars

(***************************************************************************)
(* The modes of the local user: a mode string drawn at the start and       *)
(* handled once, as a MODE naming the local user or as a 211, after lines  *)
(* that put single modes on and take them off.                             *)
(***************************************************************************)
UmodeChars == {"i", "w", "x"}
UmodeStrs  ==
    {<<c>> : c \in UmodeChars}
        \cup {<<g, c>> : g \in PairSigns, c \in UmodeChars}
        \cup {<<g, c, d>> : g \in PairSigns, c \in UmodeChars, d \in UmodeChars}
        \cup {<<g, c, h, d>> : g \in PairSigns, c \in UmodeChars,
                               h \in PairSigns, d \in UmodeChars}
\* the mode string of a 211: mode chars behind at most one "+"
Is211Str(modes_str) ==
    /\ \A i \in DOMAIN modes_str : modes_str[i] # "-"
    /\ \A i \in DOMAIN modes_str : i > 1 => modes_str[i] # "+"

InitUmode == InitSession /\ pending \in UmodeStrs

Umode_001 == NotYetDrawn /\ Welcome({"me"})
Umode_Setup ==
    \E g \in PairSigns, c \in UmodeChars :
        /\ NotYetDrawn
        /\ Handled(handle_MODE(Session, "me", <<g, c>>, <<>>), "MODE", "")
Umode_Setup211 ==
    \E c \in UmodeChars :
        /\ NotYetDrawn
        /\ Handled(handle_211(Session, <<"+", c>>), "211", "")
\* the line drawn; the second Server is not given it
Umode_MODE ==
    /\ NotYetDrawn
    /\ HandledTwice(handle_MODE(Session, "me", pending, <<>>), Session,
                    "MODE", "pending")
Umode_211 ==
    /\ NotYetDrawn /\ Is211Str(pending)
    /\ HandledTwice(handle_211(Session, pending), Session, "211", "pending")

NextUmode == Umode_001 \/ Umode_Setup \/ Umode_Setup211 \/ Umode_MODE \/ Umode_211
SpecUmode == InitUmode /\ [][NextUmode]_vars

(***************************************************************************)
(* Capability negotiation.                                                 *)
(***************************************************************************)
IsCap(sub) == last.cmd = "CAP" /\ last.sub = sub
Keys(l) == {l[i] : i \in DOMAIN l}

\* C3: whenever caps is not null, every element of agreed_caps is a key of caps.
C3_AgreedSubsetOfCaps ==
    ~caps.isNone => Keys(agreed_caps) \subseteq DictKeys(caps.x)

\* temp_caps and caps against the words of the lines of the LS in progress
LsAccumulated ==
    /\ ~lsAccum.done => temp_caps = MergedEntries(WordEntries(lsAccum.ws))
    /\ lsAccum.done => temp_caps = <<>>
    /\ (lsAccum.done /\ IsCap("LS")) =>
           caps = Some(MergedEntries(WordEntries(lsAccum.ws)))
    /\ ~lsAccum.ever => caps.isNone

\* C7: during a multi-line LS the words of its lines accumulate in temp_caps and a
\* continuation line leaves caps as it was (null until an LS has completed); right
\* after the terminal line caps holds exactly the words of the lines of that LS
\* (each name once, with its last value) and temp_caps is empty.
C7_MultilineLS ==
    /\ []LsAccumulated
    /\ [][last'.more => caps' = caps]_vars
C7_Witness ==
    /\ IsCap("LS") /\ lsAccum.done /\ lsAccum.multi
    /\ Len(lsAccum.ws) >= 2
    /\ ~caps.isNone /\ DictKeys(caps.x) = {<<"a">>, <<"b">>}
    /\ DictGet(caps.x, <<"a">>) = Some(<<"1">>)

\* C8 as written: after an ACK line agreed_caps is what it was with each token of
\* the line applied in order ("-k" removes k; k is appended when it is not agreed
\* yet, caps is not null and k is a key of caps).
C8_AckEachToken ==
    IsCap("ACK") => agreed_caps = expect.perToken

\* C8: after an ACK line agreed_caps is what it was with each distinct token of the
\* line applied once, in the order of first occurrence; agreed_caps never holds a
\* duplicate, and a line only ever adds keys of caps to it.
C8_AckEachKey ==
    /\ [](IsCap("ACK") => agreed_caps = expect.agreed)
    /\ []NoDuplicates(agreed_caps)
    /\ [][\A k \in Keys(agreed_caps') \ Keys(agreed_caps) :
              ~caps.isNone /\ k \in DictKeys(caps.x)]_vars
C8_Witness ==
    /\ IsCap("ACK") /\ last.more = FALSE
    /\ agreed_caps = << <<"b">>, <<"a">> >>
    /\ expect.perToken = agreed_caps

\* C9: after a DEL line with caps not null, caps and agreed_caps are what they were
\* without the listed keys, the rest in the same order; with caps null nothing
\* changed.
C9_DelFromBoth ==
    IsCap("DEL") => caps = expect.caps /\ agreed_caps = expect.agreed

\* C10: a NEW line leaves a null caps null, and merges its tokens into a caps that
\* is not null (the keys caps had stay in place, a named key takes the value given,
\* new keys follow); caps stops being null only at the terminal line of an LS.
C10_NewMerges ==
    /\ [](IsCap("NEW") => caps = expect.caps)
    /\ [][(caps.isNone /\ ~caps'.isNone) => last' = LineOf("CAP", "LS", FALSE)]_vars
C10_Witness ==
    /\ IsCap("NEW")
    /\ ~caps.isNone /\ Len(caps.x) = 2
    /\ caps.x[1].k = <<"b">> /\ caps.x[2] = [k |-> <<"a">>, v |-> Some(<<"1">>)]

\* the words of pending that name a key, and the last of them for a key
Naming(k)   == {i \in DOMAIN pending : pending[i] # <<>> /\ WordKey(pending[i]) = k}
LastWord(k) == pending[CHOOSE i \in Naming(k) : \A j \in Naming(k) : j <= i]
HasEquals(w) == \E i \in DOMAIN w : w[i] = "="

\* C11: of the tokens of a CAP token list, a bare key and a key with an empty
\* right-hand side ("key=") are stored with a null value, and "key=v" with a
\* non-empty v is stored with the value v (the last word naming a key decides).
C11_TokenValues ==
    IsCap("LS") =>
        /\ ~caps.isNone
        /\ DictKeys(caps.x) = {WordKey(pending[i]) : i \in {j \in DOMAIN pending : pending[j] # <<>>}}
        /\ \A k \in DictKeys(caps.x) :
               LET w == LastWord(k)
               IN  /\ ~HasEquals(w) => DictGet(caps.x, k) = None
                   /\ (HasEquals(w) /\ Len(w) = Len(k) + 1) => DictGet(caps.x, k) = None
                   /\ (HasEquals(w) /\ Len(w) > Len(k) + 1) =>
                          DictGet(caps.x, k) = Some(SubSeq(w, Len(k) + 2, Len(w)))
C11_Witness ==
    /\ IsCap("LS")
    /\ pending = << <<"a">>, <<"b", "=">>, <<"c", "=", "1">> >>
    /\ caps = Some(<< [k |-> <<"a">>, v |-> None], [k |-> <<"b">>, v |-> None],
                      [k |-> <<"c">>, v |-> Some(<<"1">>)] >>)

(***************************************************************************)
(* The message of the day.                                                 *)
(***************************************************************************)
\* C6 as written: once a 375 has been handled, motd is, in order, the texts of the
\* 372 lines handled since the most recent 375 (so it is empty right after a 375).
C6_MotdIs372sSince375 ==
    motdSince.seen375 => motd = motdSince.texts372

\* C6: once a 375 has been handled, motd is the text of the most recent 375 followed
\* by, in order, the texts of the 372 lines handled since.
C6_MotdIs375Then372s ==
    motdSince.seen375 => motd = <<motdSince.text375>> \o motdSince.texts372
C6_Witness ==
    /\ last.cmd = "372" /\ motdSince.seen375
    /\ motdSince.text375 = "x" /\ motdSince.texts372 = <<"y", "z">>
    /\ Len(motd) = 3


(***************************************************************************)
(* Users, channels and memberships.                                        *)
(***************************************************************************)
\* C1: channel_users and user_channels are mutual inverses: for every channel c
\* of channel_users, the users keyed in channel_users[c] are the users u whose
\* user_channels[u] contains c.
C1_MutualInverses ==
    \A c \in DOMAIN channel_users :
        DOMAIN channel_users[c] =
            {u \in DOMAIN user_channels : c \in user_channels[u]}
C1_Witness ==
    /\ last = LineOf("PART", "other", FALSE) /\ raised = ""
    /\ Cardinality(DOMAIN channel_users) = 2
    /\ \E u \in DOMAIN user_channels : Cardinality(user_channels[u]) = 2
    /\ \E c, d \in DOMAIN channel_users :
           Cardinality(DOMAIN channel_users[c]) = 3
           /\ Cardinality(DOMAIN channel_users[d]) = 1

FoldedNicks == {casefold(n) : n \in Nicks}
Registered  == nickname_lower # Unset
\* the user of a folded nickname is in some user_channels set
InSomeChannel(k) ==
    \E u \in DOMAIN user_channels :
        casefold(User_nickname[u]) = k /\ user_channels[u] # {}

\* C2 as written: a user is in users if and only if it is in at least one
\* user_channels set, or it is the local user and 001 has been handled.
C2_InUsersIffInChannelOrLocal ==
    \A k \in FoldedNicks :
        k \in DOMAIN users <=> (InSomeChannel(k) \/ (Registered /\ k = nickname_lower))

\* C2: a user is in users if and only if it is in at least one user_channels
\* set, the local user like any other: users maps the folded nickname of each
\* user that user_channels holds, and of nobody else, to that user, and no
\* user_channels set is empty.
C2_InUsersIffInChannel ==
    /\ \A k \in FoldedNicks : k \in DOMAIN users <=> InSomeChannel(k)
    /\ DOMAIN users \subseteq FoldedNicks
    /\ \A k \in DOMAIN users :
           users[k] \in DOMAIN user_channels /\ casefold(User_nickname[users[k]]) = k
    /\ \A u \in DOMAIN user_channels :
           user_channels[u] # {} /\ users[casefold(User_nickname[u])] = u
C2_Witness ==
    /\ last = LineOf("PART", "other", FALSE) /\ raised = ""
    /\ Registered /\ nickname_lower \in DOMAIN users
    /\ Cardinality(DOMAIN users) = 2
    /\ "bob" \notin DOMAIN users

AllEmpty ==
    /\ users = EmptyMap /\ channels = EmptyMap
    /\ user_channels = EmptyMap /\ channel_users = EmptyMap

\* C4: right after a QUIT whose source is the local user, and right after any
\* ERROR, users, channels, user_channels and channel_users are all empty.
C4_SelfQuitOrErrorEmpties ==
    (last.cmd = "ERROR" \/ last = LineOf("QUIT", "self", FALSE)) => AllEmpty
C4_Witness ==
    /\ last = LineOf("QUIT", "self", FALSE) /\ raised = ""
    /\ Registered /\ nickname = "Bob"
    /\ AllEmpty /\ User_nickname = EmptyMap /\ Channel_modes = EmptyMap

(***************************************************************************)
(* Membership modes.                                                       *)
(***************************************************************************)
Memberships == {<<c, u>> \in (DOMAIN Channel_modes) \X (DOMAIN User_nickname) :
                    c \in DOMAIN channel_users /\ u \in DOMAIN channel_users[c]}

\* C5 as written: every membership's mode list holds only prefix modes of the
\* current isupport.prefix.modes, and holds no char twice.
C5_OnlyCurrentPrefixModes ==
    \A m \in Memberships :
        /\ Keys(channel_users[m[1]][m[2]]) \subseteq Keys(isupport.prefix.modes)
        /\ NoDuplicates(channel_users[m[1]][m[2]])

\* no membership's mode list holds a char twice
NoDuplicateModes ==
    \A m \in Memberships : NoDuplicates(channel_users[m[1]][m[2]])
\* the chars a step adds to a membership's mode list are prefix modes
AddedArePrefixModes ==
    \A c \in DOMAIN channel_users' : \A u \in DOMAIN channel_users'[c] :
        LET had == IF c \in DOMAIN channel_users /\ u \in DOMAIN channel_users[c]
                   THEN Keys(channel_users[c][u]) ELSE {}
        IN  Keys(channel_users'[c][u]) \ had \subseteq Keys(isupport.prefix.modes)

\* C5: no membership's mode list holds a char twice, and the chars a line adds
\* to a membership's mode list are prefix modes of the isupport.prefix.modes
\* in force at that line (a later 005 leaves the lists as they are).
C5_OnlyPrefixModesAdded ==
    /\ []NoDuplicateModes
    /\ [][AddedArePrefixModes
          /\ (last'.cmd = "005" => channel_users' = channel_users)]_vars
C5_Witness ==
    /\ last.cmd = "MODE" /\ raised = ""
    /\ \E m \in Memberships : channel_users[m[1]][m[2]] = <<"v", "o">>
    /\ \E m \in Memberships : channel_users[m[1]][m[2]] = <<"o">>

(***************************************************************************)
(* Channels.                                                               *)
(***************************************************************************)
SelfJoin == LineOf("JOIN", "self", FALSE)

\* C12: a channel enters channels only through a JOIN whose source is the local
\* user: any other line (a JOIN of another user, 353, MODE, TOPIC, PRIVMSG, ...)
\* adds no key to channels, makes no channel record and no membership in a
\* channel that was not known.
C12_OnlySelfJoinCreates ==
    [][last' # SelfJoin =>
          /\ DOMAIN channels' \subseteq DOMAIN channels
          /\ DOMAIN channel_users' \subseteq DOMAIN channel_users
          /\ DOMAIN Channel_modes' \subseteq DOMAIN Channel_modes
          /\ DOMAIN Channel_topic' \subseteq DOMAIN Channel_topic
          /\ \A u \in DOMAIN user_channels' :
                 user_channels'[u] \subseteq DOMAIN channel_users]_vars
C12_Witness ==
    /\ last = LineOf("JOIN", "other", FALSE) /\ raised = ""
    /\ Registered
    /\ AllEmpty /\ User_nickname = EmptyMap /\ Channel_modes = EmptyMap

SelfLeft == last.cmd \in {"PART", "KICK"} /\ last.sub = "self"
\* what a step in which the local user leaves channel c does to the maps
LeftChannel(k) ==
    LET c == channels[k]
    IN  /\ channels' = Drop(channels, k)
        /\ channel_users' = Drop(channel_users, c)
        /\ \A u \in DOMAIN user_channels' : c \notin user_channels'[u]
        /\ \A u \in DOMAIN channel_users[c] :
               IF user_channels[u] = {c}
               THEN u \notin DOMAIN user_channels' /\ u \notin Range(users')
               ELSE /\ u \in DOMAIN user_channels'
                    /\ user_channels'[u] = user_channels[u] \ {c}
                    /\ \E n \in DOMAIN users' : users'[n] = u
        /\ \A u \in DOMAIN user_channels \ DOMAIN channel_users[c] :
               u \in DOMAIN user_channels' /\ user_channels'[u] = user_channels[u]
        /\ DOMAIN channels = {k} => AllEmpty'

\* C13: when the local user leaves a known channel (PART from self, KICK naming
\* self) the channel leaves channels and channel_users and every member's
\* user_channels; a member left with no channel leaves users and user_channels,
\* a member of another joined channel stays in users; after leaving the only
\* joined channel all four maps are empty.
C13_SelfLeaves ==
    [][SelfLeft' =>
          \E k \in DOMAIN channels : k \notin DOMAIN channels' /\ LeftChannel(k)]_vars
C13_Witness ==
    /\ last = LineOf("KICK", "self", FALSE) /\ raised = ""
    /\ Cardinality(DOMAIN channels) = 1
    /\ Cardinality(DOMAIN users) = 2
    /\ nickname_lower \in DOMAIN users
    /\ Cardinality(DOMAIN User_nickname) = 2

(***************************************************************************)
(* NICK.                                                                   *)
(***************************************************************************)
\* a step that re-keys the user under old to new
Rekeyed(old, new) ==
    LET u == users[old]
    IN  /\ users' = Put(Drop(users, old), new, u)
        /\ DOMAIN User_nickname' = DOMAIN User_nickname
        /\ casefold(User_nickname'[u]) = new
        /\ \A v \in DOMAIN User_nickname \ {u} : User_nickname'[v] = User_nickname[v]
        /\ IF last'.sub = "self"
           THEN /\ old = nickname_lower
                /\ nickname' = User_nickname'[u] /\ nickname_lower' = new
           ELSE nickname' = nickname /\ nickname_lower' = nickname_lower

\* C14: a NICK whose source is a known user re-keys that same user in users from
\* the folded old nickname to the folded new one and changes nothing in
\* channels, user_channels or channel_users (every membership and mode list is
\* kept); when the source is the local user the local nickname becomes the new
\* nickname.
C14_NickRekeys ==
    [][(last'.cmd = "NICK" /\ last'.sub \in {"self", "other"}) =>
          /\ \E old \in DOMAIN users, new \in FoldedNicks : Rekeyed(old, new)
          /\ UNCHANGED <<channels, user_channels, channel_users>>]_vars
C14_Witness ==
    /\ last = LineOf("NICK", "self", FALSE) /\ raised = ""
    /\ nickname = "bob" /\ nickname_lower = "bob"
    /\ DOMAIN users = {"bob"}
    /\ \E c \in DOMAIN channel_users : channel_users[c][users["bob"]] = <<"v", "o">>

(***************************************************************************)
(* Determinism.                                                            *)
(***************************************************************************)
\* C15: two sessions given the same lines are in the same state (all maps and
\* the fields of every user and channel, topic_time included).
C15_SameLinesSameState ==
    twin = Session

(***************************************************************************)
(* Failures.                                                               *)
(***************************************************************************)
\* C16: no handler partially mutates and then raises: a line whose handler
\* raises leaves the session state exactly as it was before the line.
C16_RaiseLeavesState ==
    [][raised' # "" => UNCHANGED memberVars]_vars

\* C17: until 001 the local identity is defined and empty: a line handled on a
\* session that has not handled 001 completes without failure (and takes no
\* source or target for the local user).
C17_NoFailureBefore001 ==
    ~Registered => (raised = "" /\ last.sub # "self")

(***************************************************************************)
(* Memberships met again.                                                  *)
(***************************************************************************)
IsPrefixOf(l, m) == Len(l) <= Len(m) /\ SubSeq(m, 1, Len(l)) = l

\* C18: a 353 entry or a JOIN for a user who is already a member keeps the
\* membership: the modes it held stay, in place, and a 353 appends the newly
\* found ones after them.
C18_MembershipKept ==
    [][last'.cmd \in {"353", "JOIN"} =>
          \A c \in DOMAIN channel_users \cap DOMAIN channel_users' :
              \A u \in DOMAIN channel_users[c] \cap DOMAIN channel_users'[c] :
                  IsPrefixOf(channel_users[c][u], channel_users'[c][u])]_vars

(***************************************************************************)
(* Channel modes: what the specification says of a MODE line, computed by  *)
(* the place of each parameter and not from a queue.                       *)
(***************************************************************************)
IsPrefixMode(char) == InList(isupport.prefix.modes, char)
ClassA(char) == char \in chanmodes.list_modes
ClassB(char) == char \in chanmodes.setting_b_modes
ClassC(char) == char \in chanmodes.setting_c_modes
\* the parameters a change takes
Takes(ch) ==
    IF IsPrefixMode(ch.char) \/ ClassA(ch.char) \/ ClassB(ch.char) THEN 1
    ELSE IF ClassC(ch.char) /\ ch.add THEN 1
    ELSE 0
\* the parameters the first n changes take
RECURSIVE Taken(_, _)
Taken(changes, n) == IF n = 0 THEN 0 ELSE Taken(changes, n - 1) + Takes(changes[n])

\* one change with its parameter p, on the modes cm and the members cu of a channel
ChangeOne(st, ch, p) ==
    IF IsPrefixMode(ch.char)
    THEN LET k == casefold(p)
         IN  IF k \in DOMAIN users /\ users[k] \in DOMAIN st.cu
             THEN LET u == users[k]
                  IN  [st EXCEPT !.cu[u] = IF ch.add
                                           THEN (IF InList(@, ch.char) THEN @
                                                 ELSE Append(@, ch.char))
                                           ELSE Without(@, {ch.char})]
             ELSE st
    ELSE IF ClassA(ch.char)
    THEN LET had  == IF ch.char \in DOMAIN st.cm THEN st.cm[ch.char] ELSE <<>>
             left == IF InList(had, p) THEN ListRemove(had, p) ELSE had
         IN  IF ch.add THEN [st EXCEPT !.cm = Put(@, ch.char, Append(had, p))]
             ELSE IF left = <<>> THEN [st EXCEPT !.cm = Drop(@, ch.char)]
             ELSE [st EXCEPT !.cm = Put(@, ch.char, left)]
    ELSE IF ch.add
    THEN [st EXCEPT !.cm = Put(@, ch.char, IF Takes(ch) = 1 THEN Some(p) ELSE None)]
    ELSE [st EXCEPT !.cm = Drop(@, ch.char)]

\* the changes from the i-th on, each with the parameter at its place
RECURSIVE ChangeFrom(_, _, _, _)
ChangeFrom(st, changes, params, i) ==
    IF i > Len(changes) THEN st
    ELSE ChangeFrom(ChangeOne(st, changes[i],
                              IF Takes(changes[i]) = 1
                              THEN params[Taken(changes, i - 1) + 1] ELSE ""),
                    changes, params, i + 1)

\* the changes of the line drawn, read as MODE and read as 324
FirstNotPlus(w) ==
    IF \A i \in DOMAIN w : w[i] = "+" THEN Len(w) + 1
    ELSE CHOOSE i \in DOMAIN w : w[i] # "+" /\ \A j \in 1..(i - 1) : w[j] = "+"
PendingChanges ==
    IF last'.cmd = "324"
    THEN LET w == SubSeq(pending.modes_str, FirstNotPlus(pending.modes_str),
                         Len(pending.modes_str))
         IN  [i \in DOMAIN w |-> [add |-> TRUE, char |-> w[i]]]
    ELSE ParseModes(pending.modes_str, TRUE)

\* C19: the parameters of a channel MODE (or 324) go to the mode chars in
\* order and by class: a prefix mode and a class A or B mode take one on + and
\* on -, a class C mode takes one on + and none on -, a class D or unknown
\* mode takes none; each change acts with the parameter at its place.
C19_ParamsByClass ==
    [][(last'.sub = "pending" /\ raised' = "" /\ "#c" \in DOMAIN channels) =>
          LET c  == channels["#c"]
              st == ChangeFrom([cm |-> Channel_modes[c], cu |-> channel_users[c]],
                               PendingChanges, pending.params, 1)
          IN  /\ Taken(PendingChanges, Len(PendingChanges)) <= Len(pending.params)
              /\ Channel_modes'[c] = st.cm
              /\ channel_users'[c] = st.cu]_vars
C19_Witness ==
    /\ last = LineOf("MODE", "pending", FALSE) /\ raised = ""
    /\ pending = [modes_str |-> <<"-", "l", "+", "o">>, params |-> <<"bob">>]
    /\ \E c \in DOMAIN channel_users : \E u \in DOMAIN channel_users[c] :
           /\ User_nickname[u] = "bob" /\ channel_users[c][u] = <<"o">>
           /\ Channel_modes[c] = EmptyMap
           /\ c \in DOMAIN twin.Channel_modes
           /\ twin.Channel_modes[c] = Put(EmptyMap, "l", Some("5"))
           /\ twin.channel_users[c][u] = <<>>

\* the line drawn takes a class C mode off and puts none on
TakesOffC(char) ==
    /\ ClassC(char)
    /\ \E i \in DOMAIN pending.modes_str : i > 1 /\ pending.modes_str[i] = char
    /\ \A ch \in Range(ParseModes(pending.modes_str, TRUE)) : ch.char = char => ~ch.add
StoredAs(cmodes, char) == IF char \in DOMAIN cmodes THEN Some(cmodes[char]) ELSE None

\* C20 as written: a channel MODE that takes a class C mode off leaves the
\* stored (char -> param) association of that mode as it was.
C20_MinusCKeepsStored ==
    [][(last'.cmd = "MODE" /\ last'.sub = "pending" /\ raised' = ""
        /\ "#c" \in DOMAIN channels) =>
          \A char \in PairChars :
              TakesOffC(char) =>
                  StoredAs(Channel_modes'[channels["#c"]], char)
                      = StoredAs(Channel_modes[channels["#c"]], char)]_vars

\* C20: a channel MODE that takes a class C mode off takes no parameter for it
\* and leaves no (char -> param) association of that mode stored; what it
\* stores of the other modes is what the other changes of the line make it.
C20_MinusCClearsStored ==
    [][(last'.cmd = "MODE" /\ last'.sub = "pending" /\ raised' = ""
        /\ "#c" \in DOMAIN channels) =>
          \A char \in PairChars :
              TakesOffC(char) =>
                  /\ char \notin DOMAIN Channel_modes'[channels["#c"]]
                  /\ \A ch \in Range(ParseModes(pending.modes_str, TRUE)) :
                         ch.char = char => Takes(ch) = 0]_vars
C20_Witness ==
    /\ last = LineOf("MODE", "pending", FALSE) /\ raised = ""
    /\ pending = [modes_str |-> <<"-", "l">>, params |-> <<>>]
    /\ \E c \in DOMAIN Channel_modes :
           /\ Channel_modes[c] = EmptyMap
           /\ c \in DOMAIN twin.Channel_modes
           /\ twin.Channel_modes[c] = Put(EmptyMap, "l", Some("5"))

(***************************************************************************)
(* One user leaving.                                                       *)
(***************************************************************************)
\* the user of the line drawn is another than the local user, and is known
LeaverIsOther == casefold(pending.nick) # nickname_lower
LeaverKnown   == casefold(pending.nick) \in DOMAIN users
\* the line drawn names a known channel that has its user as a member
LeavesAsMember ==
    /\ LeaverIsOther /\ LeaverKnown
    /\ casefold(pending.name) \in DOMAIN channels
    /\ users[casefold(pending.nick)]
           \in DOMAIN channel_users[channels[casefold(pending.name)]]

\* C21: when another user leaves a known channel (PART from that user, KICK
\* naming that user), that user's membership of that channel goes and no other;
\* the user goes from users and user_channels exactly when that was their last
\* channel; the channel, its other members and all other channels stay.
C21_OtherLeaves ==
    [][(last'.cmd \in {"PART", "KICK"} /\ last'.sub = "pending" /\ LeavesAsMember) =>
          LET k == casefold(pending.nick)
              u == users[k]
              c == channels[casefold(pending.name)]
          IN  /\ raised' = ""
              /\ channels' = channels
              /\ Channel_modes' = Channel_modes /\ Channel_topic' = Channel_topic
              /\ channel_users' = [channel_users EXCEPT ![c] = Drop(@, u)]
              /\ IF user_channels[u] = {c}
                 THEN /\ users' = Drop(users, k)
                      /\ user_channels' = Drop(user_channels, u)
                      /\ User_nickname' = Drop(User_nickname, u)
                 ELSE /\ users' = users
                      /\ user_channels' = [user_channels EXCEPT ![u] = @ \ {c}]
                      /\ User_nickname' = User_nickname]_vars
C21_Witness ==
    /\ last = LineOf("KICK", "pending", FALSE) /\ raised = ""
    /\ pending = [nick |-> "bob", name |-> "#c"]
    /\ "bob" \in DOMAIN users /\ {"#c", "#d"} \subseteq DOMAIN channels
    /\ users["bob"] \notin DOMAIN channel_users[channels["#c"]]
    /\ users["bob"] \in DOMAIN channel_users[channels["#d"]]
    /\ twin.users["bob"] \in DOMAIN twin.channel_users[twin.channels["#c"]]
    /\ \E u \in DOMAIN channel_users[channels["#c"]] :
           channel_users[channels["#c"]][u] = <<"o">>

\* C22: a QUIT from a known user other than the local user takes that user out
\* of users, of user_channels and of every roster, and leaves channels and the
\* memberships of every other user; from an unknown one it changes nothing.
C22_OtherQuits ==
    [][(last'.cmd = "QUIT" /\ last'.sub = "pending" /\ LeaverIsOther) =>
          IF LeaverKnown
          THEN LET k == casefold(pending.nick)
                   u == users[k]
               IN  /\ raised' = ""
                   /\ users' = Drop(users, k)
                   /\ user_channels' = Drop(user_channels, u)
                   /\ channel_users' = [c \in DOMAIN channel_users |->
                                           Drop(channel_users[c], u)]
                   /\ channels' = channels
                   /\ Channel_modes' = Channel_modes /\ Channel_topic' = Channel_topic
          ELSE UNCHANGED memberVars]_vars
C22_Witness ==
    /\ last = LineOf("QUIT", "pending", FALSE) /\ raised = ""
    /\ pending.nick = "al"
    /\ "al" \notin DOMAIN users /\ "al" \in DOMAIN twin.users
    /\ Cardinality(twin.user_channels[twin.users["al"]]) = 2
    /\ Cardinality(DOMAIN channels) = 2
    /\ \A c \in DOMAIN channel_users : Cardinality(DOMAIN channel_users[c]) = 2

\* a PRIVMSG, NOTICE or TAGMSG changes none of the four maps
MessageKeepsMaps ==
    UNCHANGED <<users, channels, user_channels, channel_users>>
\* the source of the line drawn, unknown to users, is emitted as a user that
\* users does not hold
UnknownSourceEmitted ==
    casefold(pending.nick) \notin DOMAIN users =>
        PRIVMSG_SourceUser(Session, pending.nick)
            = Some([stored |-> FALSE, nickname |-> pending.nick])

\* C23: PRIVMSG, NOTICE and TAGMSG never change users, channels, user_channels
\* or channel_users; a source nickname that users does not hold is resolved to
\* a transient user, emitted as SourceUser and not added to users.
C23_MessagesKeepMembership ==
    [][(last'.cmd = "PRIVMSG" /\ last'.sub = "pending") =>
          MessageKeepsMaps /\ UnknownSourceEmitted]_vars
\* the same once 001 has been handled
C23_AfterWelcome ==
    [][(last'.cmd = "PRIVMSG" /\ last'.sub = "pending" /\ Registered) =>
          /\ MessageKeepsMaps /\ UnknownSourceEmitted
          /\ raised' = "" /\ User_nickname' = User_nickname]_vars

(***************************************************************************)
(* Channels and their rosters.                                             *)
(***************************************************************************)
\* C24: after any sequence of handled lines the channels that channels holds
\* are exactly the keys of channel_users: a channel and its roster are made
\* together and removed together.
C24_ChannelsHaveRosters == Range(channels) = DOMAIN channel_users
C24_Witness ==
    /\ last = LineOf("PART", "self", FALSE) /\ raised = ""
    /\ Cardinality(DOMAIN channels) = 1
    /\ Cardinality(DOMAIN channel_users) = 1
    /\ \E c \in DOMAIN channel_users : Cardinality(DOMAIN channel_users[c]) = 2

(***************************************************************************)
(* The modes of the local user.                                            *)
(***************************************************************************)
\* the sign in force at place i of a mode string: that of the last sign before
\* i, "+" when there is none
SignAt(modes_str, i) ==
    LET signs == {j \in 1..(i - 1) : modes_str[j] \in PairSigns}
    IN  IF signs = {} THEN "+"
        ELSE modes_str[CHOOSE j \in signs : \A h \in signs : h <= j]
\* the chars a mode string leaves on and takes off: those whose last change is
\* a "+" and those whose last change is a "-"
LastChange(modes_str, c) ==
    LET at == {i \in DOMAIN modes_str : modes_str[i] = c}
    IN  IF at = {} THEN ""
        ELSE SignAt(modes_str, CHOOSE i \in at : \A h \in at : h <= i)
LeftOn(modes_str)   == {c \in UmodeChars : LastChange(modes_str, c) = "+"}
TakenOff(modes_str) == {c \in UmodeChars : LastChange(modes_str, c) = "-"}

\* C25: after MODE lines naming the local user and 211 lines, modes holds no
\* char twice; a MODE leaves on the chars whose last change is a + and off
\* those whose last change is a - (the sign is + until one is given), and a 211
\* adds its chars; the chars already there keep their order and a char put on
\* comes after them.
C25_UserModes ==
    [][(last'.cmd \in {"MODE", "211"} /\ last'.sub \in {"", "pending"} /\ raised' = "") =>
          /\ NoDuplicates(modes')
          /\ last'.sub = "pending" =>
                 LET on  == IF last'.cmd = "211" THEN Keys(pending) \ {"+"}
                            ELSE LeftOn(pending)
                     off == IF last'.cmd = "211" THEN {} ELSE TakenOff(pending)
                     kept == Without(modes, on \cup off)
                 IN  /\ Keys(modes') = (Keys(modes) \ off) \cup on
                     /\ Keys(modes) \cap (on \cup off) = {} =>
                            SubSeq(modes', 1, Len(modes)) = modes]_vars
C25_Witness ==
    /\ last = LineOf("MODE", "pending", FALSE) /\ raised = ""
    /\ pending = <<"-", "i", "+", "i">>
    /\ twin.modes = <<"i", "w">>
    /\ modes = <<"w", "i">>
====
